---- MODULE Spec2Model ----
(***************************************************************************)
(* The integresql client (client.go): the request/response codec, the      *)
(* template lifecycle operations, the setup-once wrappers and the test     *)
(* database checkout/return, run by callers against the manager service.   *)
(*                                                                         *)
(* Spec     several callers run operations concurrently against the        *)
(*          manager; an exchange is answered by the manager, or fails in   *)
(*          the transport.                                                 *)
(* SpecSeq  one caller runs operations one after the other; an exchange is *)
(*          answered by the manager, possibly with a damaged body, or by   *)
(*          anything on the way with any status, or fails in the           *)
(*          transport; the caller may cancel its context.                  *)
(* SpecOne  one caller runs operations one after the other; an exchange is *)
(*          answered by the manager, or fails in the transport.            *)
(* SpecTear several callers set templates up while others tear them down.  *)
(***************************************************************************)
EXTENDS Integers, Sequences, FiniteSets

\* ---------------------------------------------------------------- bounds
NumCallers == 2
\* operations started in all, under Spec and under SpecSeq
MaxCalls == 2
MaxSeqCalls == 4
\* operations started in all under SpecTear
MaxTearCalls == 3
PoolSize == 1

Callers == 1..NumCallers
Hashes == {"abc", "xyz"}
Ids == 1..PoolSize

\* ------------------------------------------------------- net/http statuses
StatusOK == 200
StatusAccepted == 202
StatusNoContent == 204
StatusNotFound == 404
StatusGone == 410
StatusLocked == 423
StatusServiceUnavailable == 503

Statuses ==
  {StatusOK, StatusAccepted, StatusNoContent, StatusNotFound, StatusGone,
   StatusLocked, StatusServiceUnavailable, 500}

\* ------------------------------------------------------------ error values
\* msg: the text an error carries besides its kind, "" for none.
Err(kind, code) == [kind |-> kind, code |-> code, msg |-> ""]

Nil == Err("nil", 0)
ErrManagerNotReady == Err("ManagerNotReady", 0)
ErrTemplateAlreadyInitialized == Err("TemplateAlreadyInitialized", 0)
ErrTemplateNotFound == Err("TemplateNotFound", 0)
ErrDatabaseDiscarded == Err("DatabaseDiscarded", 0)
ErrTestNotFound == Err("TestNotFound", 0)
\* fmt.Errorf("received unexpected HTTP status %d (%s)", ...)
ErrUnexpectedStatus(code) == Err("UnexpectedStatus", code)
\* fmt.Errorf("failed to reset all tracking: %v", msg)
ErrResetFailed(msg) == [kind |-> "ResetFailed", code |-> 0, msg |-> msg]
\* the error of http.Client.Do, of json Decode, and of the caller's steps
ErrTransport == Err("TransportFailure", 0)
ErrCodec == Err("CodecFailure", 0)
ErrOpen == Err("OpenFailure", 0)
ErrPing == Err("PingFailure", 0)
ErrPopulate == Err("PopulateFailure", 0)

\* --------------------------------------------------- payloads and responses
\* The zero value of models.TemplateDatabase / models.TestDatabase.
ZeroValue == [hash |-> "", id |-> 0, db |-> ""]

\* A JSON object holding the fields of v.
ObjectBody(v) == [fmt |-> "object", val |-> v, text |-> ""]
\* A JSON object without the fields of the destination (an error message).
MessageBody == ObjectBody(ZeroValue)
\* A JSON string, with its text.
StringBody == [fmt |-> "string", val |-> ZeroValue, text |-> "reason"]
\* A body that is no JSON value: empty (a no-content answer), truncated, HTML.
MalformedBody == [fmt |-> "malformed", val |-> ZeroValue, text |-> ""]
\* No body at all: there was no response.
NoBody == [fmt |-> "none", val |-> ZeroValue, text |-> ""]

Response(status, body) == [ok |-> TRUE, status |-> status, body |-> body]
\* http.Client.Do returned an error: no response.
NoResponse == [ok |-> FALSE, status |-> 0, body |-> NoBody]

\* json.NewDecoder(resp.Body).Decode(v) into a destination of type dest: a
\* JSON object decodes into a struct (fields it does not name stay zero), a
\* JSON string into a string (msg), and nothing else decodes.
Decode(body, dest) ==
  IF body.fmt = "object" /\ dest = "struct"
    THEN [ok |-> TRUE, val |-> body.val, msg |-> ""]
  ELSE IF body.fmt = "string" /\ dest = "string"
    THEN [ok |-> TRUE, val |-> ZeroValue, msg |-> body.text]
  ELSE [ok |-> FALSE, val |-> ZeroValue, msg |-> ""]

\* Client.do classifying before it decodes: a body that does not decode is
\* left alone and the status is returned.
do_NoDecodeFailure(r, v) ==
  IF ~r.ok
    THEN [resp |-> 0, err |-> ErrTransport, val |-> ZeroValue, msg |-> "", decoded |-> FALSE]
  ELSE IF v # "nil" /\ r.status \notin {StatusAccepted, StatusNoContent} /\ Decode(r.body, v).ok
    THEN [resp |-> r.status, err |-> Nil, val |-> Decode(r.body, v).val,
          msg |-> Decode(r.body, v).msg, decoded |-> TRUE]
  ELSE [resp |-> r.status, err |-> Nil, val |-> ZeroValue, msg |-> "", decoded |-> FALSE]

\* Client.do decoding the body whatever the status.
do_DecodeAnyStatus(r, v) ==
  IF ~r.ok
    THEN [resp |-> 0, err |-> ErrTransport, val |-> ZeroValue, msg |-> "", decoded |-> FALSE]
  ELSE IF v = "nil"
    THEN [resp |-> r.status, err |-> Nil, val |-> ZeroValue, msg |-> "", decoded |-> FALSE]
  ELSE IF ~Decode(r.body, v).ok
    THEN [resp |-> 0, err |-> ErrCodec, val |-> ZeroValue, msg |-> "", decoded |-> FALSE]
  ELSE [resp |-> r.status, err |-> Nil, val |-> Decode(r.body, v).val,
          msg |-> Decode(r.body, v).msg, decoded |-> TRUE]

\* Client.do on the transport's answer r; v: the destination, "nil" for none.
\* resp = 0 stands for the nil *http.Response.
do(r, v) ==
  IF ~r.ok
    THEN [resp |-> 0, err |-> ErrTransport, val |-> ZeroValue, msg |-> "", decoded |-> FALSE]
  ELSE IF r.status = StatusAccepted \/ r.status = StatusNoContent
    THEN [resp |-> r.status, err |-> Nil, val |-> ZeroValue, msg |-> "", decoded |-> FALSE]
  ELSE IF v = "nil"
    THEN [resp |-> r.status, err |-> Nil, val |-> ZeroValue, msg |-> "", decoded |-> FALSE]
  ELSE IF ~Decode(r.body, v).ok
    THEN [resp |-> 0, err |-> ErrCodec, val |-> ZeroValue, msg |-> "", decoded |-> FALSE]
  ELSE [resp |-> r.status, err |-> Nil, val |-> Decode(r.body, v).val,
          msg |-> Decode(r.body, v).msg, decoded |-> TRUE]

Result(val, err) == [val |-> val, err |-> err]

\* ------------------------------------------- the operations after c.do
\* ResetAllTracking taking the accepted status for a success as well.
ResetAllTrackingResult_AcceptedIsSuccess(r) ==
  LET d == do(r, "string") IN
  IF d.err # Nil THEN Result(ZeroValue, d.err)
  ELSE IF d.resp \notin {StatusNoContent, StatusAccepted}
    THEN Result(ZeroValue, ErrResetFailed(d.msg))
  ELSE Result(ZeroValue, Nil)

ResetAllTrackingResult(r) ==
  LET d == do(r, "string") IN
  IF d.err # Nil THEN Result(ZeroValue, d.err)
  ELSE IF d.resp # StatusNoContent THEN Result(ZeroValue, ErrResetFailed(d.msg))
  ELSE Result(ZeroValue, Nil)

\* InitializeTemplate taking the locked status for a success.
InitializeTemplateResult_LockedIsSuccess(r) ==
  LET d == do(r, "struct") IN
  IF d.err # Nil THEN Result(d.val, d.err)
  ELSE IF d.resp = StatusOK \/ d.resp = StatusLocked THEN Result(d.val, Nil)
  ELSE IF d.resp = StatusServiceUnavailable THEN Result(d.val, ErrManagerNotReady)
  ELSE Result(d.val, ErrUnexpectedStatus(d.resp))

InitializeTemplateResult(r) ==
  LET d == do(r, "struct") IN
  IF d.err # Nil THEN Result(d.val, d.err)
  ELSE IF d.resp = StatusOK THEN Result(d.val, Nil)
  ELSE IF d.resp = StatusLocked THEN Result(d.val, ErrTemplateAlreadyInitialized)
  ELSE IF d.resp = StatusServiceUnavailable THEN Result(d.val, ErrManagerNotReady)
  ELSE Result(d.val, ErrUnexpectedStatus(d.resp))

\* DiscardTemplate without the not-found case.
DiscardTemplateResult_NoNotFound(r) ==
  LET d == do(r, "nil") IN
  IF d.err # Nil THEN Result(ZeroValue, d.err)
  ELSE IF d.resp = StatusNoContent THEN Result(ZeroValue, Nil)
  ELSE IF d.resp = StatusServiceUnavailable THEN Result(ZeroValue, ErrManagerNotReady)
  ELSE Result(ZeroValue, ErrUnexpectedStatus(d.resp))

DiscardTemplateResult(r) ==
  LET d == do(r, "nil") IN
  IF d.err # Nil THEN Result(ZeroValue, d.err)
  ELSE IF d.resp = StatusNoContent THEN Result(ZeroValue, Nil)
  ELSE IF d.resp = StatusNotFound THEN Result(ZeroValue, ErrTemplateNotFound)
  ELSE IF d.resp = StatusServiceUnavailable THEN Result(ZeroValue, ErrManagerNotReady)
  ELSE Result(ZeroValue, ErrUnexpectedStatus(d.resp))

\* FinalizeTemplate taking the not-found status for a success.
FinalizeTemplateResult_NotFoundIsSuccess(r) ==
  LET d == do(r, "nil") IN
  IF d.err # Nil THEN Result(ZeroValue, d.err)
  ELSE IF d.resp = StatusNoContent \/ d.resp = StatusNotFound THEN Result(ZeroValue, Nil)
  ELSE IF d.resp = StatusServiceUnavailable THEN Result(ZeroValue, ErrManagerNotReady)
  ELSE Result(ZeroValue, ErrUnexpectedStatus(d.resp))

FinalizeTemplateResult(r) ==
  LET d == do(r, "nil") IN
  IF d.err # Nil THEN Result(ZeroValue, d.err)
  ELSE IF d.resp = StatusNoContent THEN Result(ZeroValue, Nil)
  ELSE IF d.resp = StatusNotFound THEN Result(ZeroValue, ErrTemplateNotFound)
  ELSE IF d.resp = StatusServiceUnavailable THEN Result(ZeroValue, ErrManagerNotReady)
  ELSE Result(ZeroValue, ErrUnexpectedStatus(d.resp))

\* GetTestDatabase taking gone for not-found.
GetTestDatabaseResult_GoneIsNotFound(r) ==
  LET d == do(r, "struct") IN
  IF d.err # Nil THEN Result(d.val, d.err)
  ELSE IF d.resp = StatusOK THEN Result(d.val, Nil)
  ELSE IF d.resp = StatusNotFound \/ d.resp = StatusGone THEN Result(d.val, ErrTemplateNotFound)
  ELSE IF d.resp = StatusServiceUnavailable THEN Result(d.val, ErrManagerNotReady)
  ELSE Result(d.val, ErrUnexpectedStatus(d.resp))

GetTestDatabaseResult(r) ==
  LET d == do(r, "struct") IN
  IF d.err # Nil THEN Result(d.val, d.err)
  ELSE IF d.resp = StatusOK THEN Result(d.val, Nil)
  ELSE IF d.resp = StatusNotFound THEN Result(d.val, ErrTemplateNotFound)
  ELSE IF d.resp = StatusGone THEN Result(d.val, ErrDatabaseDiscarded)
  ELSE IF d.resp = StatusServiceUnavailable THEN Result(d.val, ErrManagerNotReady)
  ELSE Result(d.val, ErrUnexpectedStatus(d.resp))

\* ReturnTestDatabase with a kind of its own for the not-found status.
ReturnTestDatabaseResult_TestNotFound(r) ==
  LET d == do(r, "nil") IN
  IF d.err # Nil THEN Result(ZeroValue, d.err)
  ELSE IF d.resp = StatusNoContent THEN Result(ZeroValue, Nil)
  ELSE IF d.resp = StatusNotFound THEN Result(ZeroValue, ErrTestNotFound)
  ELSE IF d.resp = StatusServiceUnavailable THEN Result(ZeroValue, ErrManagerNotReady)
  ELSE Result(ZeroValue, ErrUnexpectedStatus(d.resp))

ReturnTestDatabaseResult(r) ==
  LET d == do(r, "nil") IN
  IF d.err # Nil THEN Result(ZeroValue, d.err)
  ELSE IF d.resp = StatusNoContent THEN Result(ZeroValue, Nil)
  ELSE IF d.resp = StatusNotFound THEN Result(ZeroValue, ErrTemplateNotFound)
  ELSE IF d.resp = StatusServiceUnavailable THEN Result(ZeroValue, ErrManagerNotReady)
  ELSE Result(ZeroValue, ErrUnexpectedStatus(d.resp))

\* ---------------------------------------------------------------- state
VARIABLES
  baseURL,    \* Client.baseURL: the path segments of the resolved base location
  tmpl,       \* manager: the state of the template of each hash
  clones,     \* manager: the checked-out test databases, <<hash, id>>
  call,       \* per caller: the operation it runs, where it is, what it returned
  ncalls,     \* operations started so far
  populated,  \* per hash: how many times a populate callback was run
  initOK,     \* per hash: how many InitializeTemplate calls returned a descriptor
  granted,    \* per hash: the manager has answered an Initialize with success
  torn,       \* per hash: a discard or a reset has torn the template down
  undone,     \* per caller: what became of the template that its running
              \* setup call got initialized, before the call returned: "no"
              \* (nothing), "torn" (torn down), "again" (torn down and
              \* initialized again for someone else)
  abandoned   \* per hash: a SetupTemplate call has returned the failure of
              \* its populate, and nobody has called DiscardTemplate on the
              \* hash or ResetAllTracking since

vars ==
  <<baseURL, tmpl, clones, call, ncalls, populated, initOK, granted, torn, undone,
    abandoned>>

\* NewClient: the base location joined with the API version.
ResolvedBase == <<"api", "v1">>

\* ------------------------------------------------------------- newRequest
\* Client.newRequest: the endpoint joined to the base location; the base
\* location itself is only read.
\* A request built with http.NewRequest: it carries no caller context.
newRequest_NoContext(base, ctx, method, endpoint, body) ==
  [ctx |-> [cancelled |-> FALSE], method |-> method, path |-> base \o endpoint,
   body |-> body]

newRequest(base, ctx, method, endpoint, body) ==
  [ctx |-> ctx, method |-> method, path |-> base \o endpoint, body |-> body]

\* A context.Context: whether its cancellation signal has fired.
Context(cancelled) == [cancelled |-> cancelled]

NoPayload == [hash |-> ""]

ResetAllTrackingRequest(base, ctx) ==
  newRequest(base, ctx, "DELETE", <<"admin", "templates">>, NoPayload)
InitializeTemplateRequest(base, ctx, h) ==
  newRequest(base, ctx, "POST", <<"templates">>, [hash |-> h])
DiscardTemplateRequest(base, ctx, h) ==
  newRequest(base, ctx, "DELETE", <<"templates", h>>, NoPayload)
FinalizeTemplateRequest(base, ctx, h) ==
  newRequest(base, ctx, "PUT", <<"templates", h>>, NoPayload)
GetTestDatabaseRequest(base, ctx, h) ==
  newRequest(base, ctx, "GET", <<"templates", h, "tests">>, NoPayload)
\* ReturnTestDatabase asking for the release of no particular test database.
ReturnTestDatabaseRequest_IdDropped(base, ctx, h, id) ==
  newRequest(base, ctx, "DELETE", <<"templates", h, "tests", 0>>, NoPayload)

ReturnTestDatabaseRequest(base, ctx, h, id) ==
  newRequest(base, ctx, "DELETE", <<"templates", h, "tests", id>>, NoPayload)

\* ------------------------------------------------------------ the manager
\* The manager service is not part of the client: its answers follow the
\* template state machine and the endpoint table of the specification.
TemplateStates == {"absent", "initializing", "ready", "discarded"}

Answer(status, body, t, cl) ==
  [r |-> Response(status, body), tmpl |-> t, clones |-> cl]

\* The endpoint below the manager's own base path.
Endpoint(req) ==
  IF Len(req.path) >= Len(ResolvedBase)
       /\ SubSeq(req.path, 1, Len(ResolvedBase)) = ResolvedBase
    THEN SubSeq(req.path, Len(ResolvedBase) + 1, Len(req.path))
    ELSE <<"unrouted">>

ManagerReset ==
  {Answer(StatusNoContent, MalformedBody, [h \in Hashes |-> "absent"], {})}

ManagerInitialize(h) ==
  IF h \notin Hashes THEN {Answer(500, MessageBody, tmpl, clones)}
  ELSE IF tmpl[h] \in {"absent", "discarded"}
    THEN {Answer(StatusOK, ObjectBody([hash |-> h, id |-> 0, db |-> "template"]),
                 [tmpl EXCEPT ![h] = "initializing"], clones)}
    ELSE {Answer(StatusLocked, MessageBody, tmpl, clones)}

ManagerFinalize(h) ==
  IF h \in Hashes /\ tmpl[h] \in {"initializing", "ready"}
    THEN {Answer(StatusNoContent, MalformedBody, [tmpl EXCEPT ![h] = "ready"], clones)}
    ELSE {Answer(StatusNotFound, MessageBody, tmpl, clones)}

ManagerDiscard(h) ==
  IF h \in Hashes /\ tmpl[h] \in {"initializing", "ready"}
    THEN {Answer(StatusNoContent, MalformedBody, [tmpl EXCEPT ![h] = "discarded"],
                 {x \in clones : x[1] # h})}
    ELSE {Answer(StatusNotFound, MessageBody, tmpl, clones)}

\* A checkout of a template that is still initializing waits at the manager
\* (no answer yet); a template whose pool is exhausted is not ready to serve.
ManagerGet(h) ==
  IF h \notin Hashes \/ tmpl[h] = "absent"
    THEN {Answer(StatusNotFound, MessageBody, tmpl, clones)}
  ELSE IF tmpl[h] = "discarded"
    THEN {Answer(StatusGone, MessageBody, tmpl, clones)}
  ELSE IF tmpl[h] = "initializing" THEN {}
  ELSE IF \A i \in Ids : <<h, i>> \in clones
    THEN {Answer(StatusServiceUnavailable, MessageBody, tmpl, clones)}
  ELSE {Answer(StatusOK, ObjectBody([hash |-> h, id |-> i, db |-> "test"]),
               tmpl, clones \cup {<<h, i>>}) : i \in {j \in Ids : <<h, j>> \notin clones}}

ManagerReturn(h, id) ==
  IF <<h, id>> \in clones
    THEN {Answer(StatusNoContent, MalformedBody, tmpl, clones \ {<<h, id>>})}
    ELSE {Answer(StatusNotFound, MessageBody, tmpl, clones)}

\* The manager's routing of a request to its handlers.
ManagerHandle(req) ==
  LET e == Endpoint(req) IN
  IF req.method = "DELETE" /\ e = <<"admin", "templates">> THEN ManagerReset
  ELSE IF Len(e) = 0 \/ e[1] # "templates"
    THEN {Answer(StatusNotFound, MessageBody, tmpl, clones)}
  ELSE IF req.method = "POST" /\ Len(e) = 1 THEN ManagerInitialize(req.body.hash)
  ELSE IF req.method = "PUT" /\ Len(e) = 2 THEN ManagerFinalize(e[2])
  ELSE IF req.method = "DELETE" /\ Len(e) = 2 THEN ManagerDiscard(e[2])
  ELSE IF req.method = "GET" /\ Len(e) = 3 /\ e[3] = "tests" THEN ManagerGet(e[2])
  ELSE IF req.method = "DELETE" /\ Len(e) = 4 /\ e[3] = "tests" THEN ManagerReturn(e[2], e[4])
  ELSE {Answer(StatusNotFound, MessageBody, tmpl, clones)}

\* The manager refuses work for the moment: nothing changes.
ManagerNotReady == Answer(StatusServiceUnavailable, MessageBody, tmpl, clones)

\* ---------------------------------------------------------- the transport
\* What one exchange can come to: the manager's answer; no response although
\* the manager may have handled the request (connectivity, timeout, the
\* caller's cancellation); the manager refusing work.  With faulty, also the
\* manager's answer with a damaged body and any status from anything on the
\* way.  A cancelled context never gets a response.
Lost(a) == [a EXCEPT !.r = NoResponse]
Unsent == [r |-> NoResponse, tmpl |-> tmpl, clones |-> clones]
Damaged(a) == [a EXCEPT !.r.body = MalformedBody]

Answers(req, faulty) ==
  LET handled == ManagerHandle(req) IN
  IF req.ctx.cancelled THEN {Unsent} \cup {Lost(a) : a \in handled}
  ELSE handled \cup {ManagerNotReady, Unsent} \cup {Lost(a) : a \in handled}
       \cup (IF faulty
               THEN {Damaged(a) : a \in handled}
                    \cup {Answer(s, b, tmpl, clones) :
                            s \in Statuses, b \in {MessageBody, StringBody, MalformedBody}}
               ELSE {})

\* The manager's side of an exchange takes effect.
Commit(a) ==
  /\ tmpl' = a.tmpl
  /\ clones' = a.clones
  /\ granted' = [h \in Hashes |->
       granted[h] \/ (tmpl[h] # "initializing" /\ a.tmpl[h] = "initializing")]
  /\ torn' = [h \in Hashes |->
       torn[h] \/ (tmpl[h] \in {"initializing", "ready"}
                     /\ a.tmpl[h] \in {"absent", "discarded"})]
  /\ undone' = [c \in Callers |->
       IF /\ call[c].op \in {"SetupTemplate", "SetupTemplateWithDBClient"}
          /\ call[c].pc \in {"open", "ping", "populate", "finalize"}
         THEN IF /\ tmpl[call[c].hash] \in {"initializing", "ready"}
                 /\ a.tmpl[call[c].hash] \in {"absent", "discarded"}
                THEN "torn"
              ELSE IF undone[c] = "torn" /\ a.tmpl[call[c].hash] = "initializing"
                THEN "again"
              ELSE undone[c]
         ELSE undone[c]]

\* ------------------------------------------------------------ the callers
Ops ==
  {"ResetAllTracking", "InitializeTemplate", "SetupTemplate",
   "SetupTemplateWithDBClient", "DiscardTemplate", "FinalizeTemplate",
   "GetTestDatabase", "ReturnTestDatabase"}

\* What a caller has got from its latest calls, as far as they follow one
\* another as InitializeTemplate(h) returning d1, FinalizeTemplate(h)
\* returning success, GetTestDatabase(h) returning test, and
\* ReturnTestDatabase(h, test.id): stage counts the calls of that run made.
NoScenario ==
  [stage |-> 0, hash |-> "", d1 |-> ZeroValue, got |-> FALSE, test |-> ZeroValue]

Idle ==
  [pc |-> "idle", op |-> "none", hash |-> "", id |-> 0, cancelled |-> FALSE,
   db |-> "none", closes |-> 0, val |-> ZeroValue, err |-> Nil, log |-> <<>>,
   scn |-> NoScenario, late |-> FALSE]

\* One step of a call: an exchange with the status and the body of the
\* response (0: no response), or a step of the caller with 1 (succeeded) or
\* 0 (failed).
Step(name, res, body) == [step |-> name, res |-> res, body |-> body]
Exchanged(rec, name, r) == [rec EXCEPT !.log = Append(@, Step(name, r.status, r.body))]
Logged(rec, name, res) == [rec EXCEPT !.log = Append(@, Step(name, res, NoBody))]

\* The caller's run after the call of rec has returned res.
Scenario(rec, res) ==
  LET s == rec.scn IN
  IF rec.op = "InitializeTemplate" /\ res.err = Nil
    THEN [NoScenario EXCEPT !.stage = 1, !.hash = rec.hash, !.d1 = res.val]
  ELSE IF rec.op = "FinalizeTemplate" /\ s.stage = 1 /\ rec.hash = s.hash /\ res.err = Nil
    THEN [s EXCEPT !.stage = 2]
  ELSE IF rec.op = "GetTestDatabase" /\ s.stage = 2 /\ rec.hash = s.hash
    THEN [s EXCEPT !.stage = 3, !.got = (res.err = Nil), !.test = res.val]
  ELSE IF rec.op = "ReturnTestDatabase" /\ s.stage = 3 /\ s.got
            /\ rec.hash = s.hash /\ rec.id = s.test.id
    THEN [s EXCEPT !.stage = 4]
  ELSE NoScenario

\* The call going round again when the manager was not ready or the exchange
\* failed, instead of returning.
Return_RetryWhenNotReady(rec, res) ==
  IF res.err \in {ErrManagerNotReady, ErrTransport}
    THEN rec
    ELSE [rec EXCEPT !.pc = "done", !.err = res.err, !.val = res.val,
                     !.scn = Scenario(rec, res)]

\* The call returning the descriptor that an earlier InitializeTemplate of
\* the same hash got, kept by the client, instead of the failure res.
Return_FromCache(rec, res) ==
  IF /\ rec.op = "InitializeTemplate" /\ res.err # Nil
     /\ rec.scn.stage >= 1 /\ rec.scn.hash = rec.hash
    THEN [rec EXCEPT !.pc = "done", !.err = Nil, !.val = rec.scn.d1,
                     !.scn = Scenario(rec, Result(rec.scn.d1, Nil))]
    ELSE [rec EXCEPT !.pc = "done", !.err = res.err, !.val = res.val,
                     !.scn = Scenario(rec, res)]

\* The call returns res.
Return(rec, res) ==
  [rec EXCEPT !.pc = "done", !.err = res.err, !.val = res.val,
              !.scn = Scenario(rec, res)]

\* The handle closed on the successful return only.
DeferredClose_OnSuccessOnly(rec, err) ==
  IF err = Nil
    THEN [rec EXCEPT !.db = "closed", !.closes = @ + 1, !.log = Append(@, Step("close", 1, NoBody))]
    ELSE rec

\* defer db.Close(): runs on every return after the handle was opened.
DeferredClose(rec, err) ==
  [rec EXCEPT !.db = "closed", !.closes = @ + 1, !.log = Append(@, Step("close", 1, NoBody))]

\* The arguments an operation takes.
Args(op) ==
  IF op = "ResetAllTracking" THEN {<<"", 0>>}
  ELSE IF op = "ReturnTestDatabase" THEN Hashes \X Ids
  ELSE Hashes \X {0}

FirstPc(op) ==
  IF op \in {"SetupTemplate", "SetupTemplateWithDBClient"} THEN "initialize" ELSE "exchange"

Init ==
  /\ baseURL = ResolvedBase
  /\ tmpl = [h \in Hashes |-> "absent"]
  /\ clones = {}
  /\ call = [c \in Callers |-> Idle]
  /\ ncalls = 0
  /\ populated = [h \in Hashes |-> 0]
  /\ initOK = [h \in Hashes |-> 0]
  /\ granted = [h \in Hashes |-> FALSE]
  /\ torn = [h \in Hashes |-> FALSE]
  /\ undone = [c \in Callers |-> "no"]
  /\ abandoned = [h \in Hashes |-> FALSE]

\* A caller starts an operation.
Call(c, limit, op, h, id) ==
  /\ call[c].pc \in {"idle", "done"}
  /\ ncalls < limit
  /\ call' = [call EXCEPT ![c] =
       [Idle EXCEPT !.pc = FirstPc(op), !.op = op, !.hash = h, !.id = id,
                    !.scn = call[c].scn]]
  /\ ncalls' = ncalls + 1
  /\ undone' = [undone EXCEPT ![c] = "no"]
  /\ abandoned' =
       IF op = "ResetAllTracking" THEN [x \in Hashes |-> FALSE]
       ELSE IF op = "DiscardTemplate" THEN [abandoned EXCEPT ![h] = FALSE]
       ELSE abandoned
  /\ UNCHANGED <<baseURL, tmpl, clones, populated, initOK, granted, torn>>

\* The caller's cancellation signal fires while its operation runs.
Cancel(c) ==
  /\ call[c].pc \notin {"idle", "done"}
  /\ ~call[c].cancelled
  /\ call' = [call EXCEPT ![c] = [Logged(@, "cancel", 1) EXCEPT !.cancelled = TRUE]]
  /\ UNCHANGED <<baseURL, tmpl, clones, ncalls, populated, initOK, granted, torn, undone, abandoned>>

At(c, op, pc) == call[c].op = op /\ call[c].pc = pc

\* The ctx argument of the running call.
Ctx(c) == Context(call[c].cancelled)

CountInit(h, res) ==
  initOK' = IF res.err = Nil THEN [initOK EXCEPT ![h] = @ + 1] ELSE initOK

ResetAllTracking(c, faulty) ==
  /\ At(c, "ResetAllTracking", "exchange")
  /\ \E a \in Answers(ResetAllTrackingRequest(baseURL, Ctx(c)), faulty) :
       /\ Commit(a)
       /\ call' = [call EXCEPT ![c] =
            Return(Exchanged(@, "ResetAllTracking", a.r), ResetAllTrackingResult(a.r))]
  /\ UNCHANGED <<baseURL, ncalls, abandoned, populated, initOK>>

InitializeTemplate(c, faulty) ==
  /\ At(c, "InitializeTemplate", "exchange")
  /\ \E a \in Answers(InitializeTemplateRequest(baseURL, Ctx(c), call[c].hash), faulty) :
       /\ Commit(a)
       /\ call' = [call EXCEPT ![c] =
            Return(Exchanged(@, "InitializeTemplate", a.r), InitializeTemplateResult(a.r))]
       /\ CountInit(call[c].hash, InitializeTemplateResult(a.r))
  /\ UNCHANGED <<baseURL, ncalls, abandoned, populated>>

DiscardTemplate(c, faulty) ==
  /\ At(c, "DiscardTemplate", "exchange")
  /\ \E a \in Answers(DiscardTemplateRequest(baseURL, Ctx(c), call[c].hash), faulty) :
       /\ Commit(a)
       /\ call' = [call EXCEPT ![c] =
            Return(Exchanged(@, "DiscardTemplate", a.r), DiscardTemplateResult(a.r))]
  /\ UNCHANGED <<baseURL, ncalls, abandoned, populated, initOK>>

FinalizeTemplate(c, faulty) ==
  /\ At(c, "FinalizeTemplate", "exchange")
  /\ \E a \in Answers(FinalizeTemplateRequest(baseURL, Ctx(c), call[c].hash), faulty) :
       /\ Commit(a)
       /\ call' = [call EXCEPT ![c] =
            Return(Exchanged(@, "FinalizeTemplate", a.r), FinalizeTemplateResult(a.r))]
  /\ UNCHANGED <<baseURL, ncalls, abandoned, populated, initOK>>

GetTestDatabase(c, faulty) ==
  /\ At(c, "GetTestDatabase", "exchange")
  /\ \E a \in Answers(GetTestDatabaseRequest(baseURL, Ctx(c), call[c].hash), faulty) :
       /\ Commit(a)
       /\ call' = [call EXCEPT ![c] =
            Return(Exchanged(@, "GetTestDatabase", a.r), GetTestDatabaseResult(a.r))]
  /\ UNCHANGED <<baseURL, ncalls, abandoned, populated, initOK>>

ReturnTestDatabase(c, faulty) ==
  /\ At(c, "ReturnTestDatabase", "exchange")
  /\ \E a \in Answers(ReturnTestDatabaseRequest(baseURL, Ctx(c), call[c].hash, call[c].id), faulty) :
       /\ Commit(a)
       /\ call' = [call EXCEPT ![c] =
            Return(Exchanged(@, "ReturnTestDatabase", a.r), ReturnTestDatabaseResult(a.r))]
  /\ UNCHANGED <<baseURL, ncalls, abandoned, populated, initOK>>

\* ----------------------------------------------------------- SetupTemplate
\* What SetupTemplate does with the error of its InitializeTemplate: go on
\* to populate, or return ret.
\* SetupTemplate populating again when the template is already initialized.
SetupTemplateDecision_PopulateOnLocked(err) ==
  IF err = Nil \/ err = ErrTemplateAlreadyInitialized THEN [populate |-> TRUE, ret |-> Nil]
  ELSE [populate |-> FALSE, ret |-> err]

\* SetupTemplate absorbing ManagerNotReady as well.
SetupTemplateDecision_AbsorbNotReady(err) ==
  IF err = Nil THEN [populate |-> TRUE, ret |-> Nil]
  ELSE IF err \in {ErrTemplateAlreadyInitialized, ErrManagerNotReady}
    THEN [populate |-> FALSE, ret |-> Nil]
  ELSE [populate |-> FALSE, ret |-> err]

\* SetupTemplate populating whatever its InitializeTemplate returned.
SetupTemplateDecision_PopulateAlways(err) == [populate |-> TRUE, ret |-> Nil]

\* SetupTemplate returning the already-initialized signal as a failure.
SetupTemplateDecision_LockedIsFailure(err) ==
  IF err = Nil THEN [populate |-> TRUE, ret |-> Nil]
  ELSE [populate |-> FALSE, ret |-> err]

SetupTemplateDecision(err) ==
  IF err = Nil THEN [populate |-> TRUE, ret |-> Nil]
  ELSE IF err = ErrTemplateAlreadyInitialized THEN [populate |-> FALSE, ret |-> Nil]
  ELSE [populate |-> FALSE, ret |-> err]

\* SetupTemplateWithDBClient absorbing every failure of InitializeTemplate.
SetupTemplateWithDBClientDecision_AbsorbAll(err) ==
  IF err = Nil THEN [populate |-> TRUE, ret |-> Nil]
  ELSE [populate |-> FALSE, ret |-> Nil]

SetupTemplateWithDBClientDecision(err) ==
  IF err = Nil THEN [populate |-> TRUE, ret |-> Nil]
  ELSE IF err = ErrTemplateAlreadyInitialized THEN [populate |-> FALSE, ret |-> Nil]
  ELSE [populate |-> FALSE, ret |-> err]

RunPopulate(h) == populated' = [populated EXCEPT ![h] = @ + 1]

\* SetupTemplate finalizing whatever populate returned.
SetupTemplateAfterPopulate_FinalizeAnyway(rec, ok) ==
  [Logged(rec, "populate", IF ok THEN 1 ELSE 0) EXCEPT !.pc = "finalize"]

\* What SetupTemplate does with the result of populate: finalize, or return
\* the failure.
SetupTemplateAfterPopulate(rec, ok) ==
  IF ok
    THEN [Logged(rec, "populate", 1) EXCEPT !.pc = "finalize"]
    ELSE Return(Logged(rec, "populate", 0), Result(ZeroValue, ErrPopulate))

SetupTemplate_Initialize(c, faulty) ==
  /\ At(c, "SetupTemplate", "initialize")
  /\ \E a \in Answers(InitializeTemplateRequest(baseURL, Ctx(c), call[c].hash), faulty) :
       LET res == InitializeTemplateResult(a.r)
           d == SetupTemplateDecision(res.err)
           rec == [Exchanged(call[c], "InitializeTemplate", a.r) EXCEPT
                     !.late = abandoned[call[c].hash]]
       IN /\ Commit(a)
          /\ CountInit(call[c].hash, res)
          /\ call' = [call EXCEPT ![c] =
               IF d.populate
                 THEN [rec EXCEPT !.pc = "populate", !.val = res.val]
                 ELSE Return(rec, Result(ZeroValue, d.ret))]
  /\ UNCHANGED <<baseURL, ncalls, abandoned, populated>>

\* init(template.Config.ConnectionString())
SetupTemplate_Populate(c) ==
  /\ At(c, "SetupTemplate", "populate")
  /\ RunPopulate(call[c].hash)
  /\ \E ok \in BOOLEAN :
       /\ call' = [call EXCEPT ![c] = SetupTemplateAfterPopulate(@, ok)]
       /\ abandoned' = IF ok THEN abandoned ELSE [abandoned EXCEPT ![call[c].hash] = TRUE]
  /\ UNCHANGED <<baseURL, tmpl, clones, ncalls, initOK, granted, torn, undone>>

SetupTemplate_Finalize(c, faulty) ==
  /\ At(c, "SetupTemplate", "finalize")
  /\ \E a \in Answers(FinalizeTemplateRequest(baseURL, Ctx(c), call[c].hash), faulty) :
       /\ Commit(a)
       /\ call' = [call EXCEPT ![c] =
            Return(Exchanged(@, "FinalizeTemplate", a.r),
                   Result(ZeroValue, FinalizeTemplateResult(a.r).err))]
  /\ UNCHANGED <<baseURL, ncalls, abandoned, populated, initOK>>

\* ----------------------------------------------- SetupTemplateWithDBClient
SetupTemplateWithDBClient_Initialize(c, faulty) ==
  /\ At(c, "SetupTemplateWithDBClient", "initialize")
  /\ \E a \in Answers(InitializeTemplateRequest(baseURL, Ctx(c), call[c].hash), faulty) :
       LET res == InitializeTemplateResult(a.r)
           d == SetupTemplateWithDBClientDecision(res.err)
           rec == Exchanged(call[c], "InitializeTemplate", a.r)
       IN /\ Commit(a)
          /\ CountInit(call[c].hash, res)
          /\ call' = [call EXCEPT ![c] =
               IF d.populate
                 THEN [rec EXCEPT !.pc = "open", !.val = res.val]
                 ELSE Return(rec, Result(ZeroValue, d.ret))]
  /\ UNCHANGED <<baseURL, ncalls, abandoned, populated>>

\* sql.Open: on failure the call returns before any close is deferred.
SetupTemplateWithDBClient_Open(c) ==
  /\ At(c, "SetupTemplateWithDBClient", "open")
  /\ \E ok \in BOOLEAN :
       call' = [call EXCEPT ![c] =
         IF ok
           THEN [Logged(@, "open", 1) EXCEPT !.pc = "ping", !.db = "open"]
           ELSE Return(Logged(@, "open", 0), Result(ZeroValue, ErrOpen))]
  /\ UNCHANGED <<baseURL, tmpl, clones, ncalls, populated, initOK, granted, torn, undone, abandoned>>

\* SetupTemplateWithDBClient going on to populate whatever the probe said.
SetupTemplateWithDBClient_Ping_NoGate(c) ==
  /\ At(c, "SetupTemplateWithDBClient", "ping")
  /\ \E ok \in (IF call[c].cancelled THEN {FALSE} ELSE BOOLEAN) :
       call' = [call EXCEPT ![c] =
         [Logged(@, "ping", IF ok THEN 1 ELSE 0) EXCEPT !.pc = "populate"]]
  /\ UNCHANGED <<baseURL, tmpl, clones, ncalls, populated, initOK, granted, torn, undone, abandoned>>

\* db.PingContext(ctx): fails on a cancelled context.
SetupTemplateWithDBClient_Ping(c) ==
  /\ At(c, "SetupTemplateWithDBClient", "ping")
  /\ \E ok \in (IF call[c].cancelled THEN {FALSE} ELSE BOOLEAN) :
       call' = [call EXCEPT ![c] =
         IF ok
           THEN [Logged(@, "ping", 1) EXCEPT !.pc = "populate"]
           ELSE Return(DeferredClose(Logged(@, "ping", 0), ErrPing),
                       Result(ZeroValue, ErrPing))]
  /\ UNCHANGED <<baseURL, tmpl, clones, ncalls, populated, initOK, granted, torn, undone, abandoned>>

\* init(db)
SetupTemplateWithDBClient_Populate(c) ==
  /\ At(c, "SetupTemplateWithDBClient", "populate")
  /\ RunPopulate(call[c].hash)
  /\ \E ok \in BOOLEAN :
       call' = [call EXCEPT ![c] =
         IF ok
           THEN [Logged(@, "populate", 1) EXCEPT !.pc = "finalize"]
           ELSE Return(DeferredClose(Logged(@, "populate", 0), ErrPopulate),
                       Result(ZeroValue, ErrPopulate))]
  /\ UNCHANGED <<baseURL, tmpl, clones, ncalls, initOK, granted, torn, undone, abandoned>>

SetupTemplateWithDBClient_Finalize(c, faulty) ==
  /\ At(c, "SetupTemplateWithDBClient", "finalize")
  /\ \E a \in Answers(FinalizeTemplateRequest(baseURL, Ctx(c), call[c].hash), faulty) :
       LET err == FinalizeTemplateResult(a.r).err IN
       /\ Commit(a)
       /\ call' = [call EXCEPT ![c] =
            Return(DeferredClose(Exchanged(@, "FinalizeTemplate", a.r), err),
                   Result(ZeroValue, err))]
  /\ UNCHANGED <<baseURL, ncalls, abandoned, populated, initOK>>

\* ------------------------------------------------------ the specifications
StartOf(c, limit, ops) ==
  \E op \in ops : \E x \in Args(op) : Call(c, limit, op, x[1], x[2])

Start(c, limit) == StartOf(c, limit, Ops)

Next ==
  \E c \in Callers :
    \/ Start(c, MaxCalls)
    \/ ResetAllTracking(c, FALSE)
    \/ InitializeTemplate(c, FALSE)
    \/ DiscardTemplate(c, FALSE)
    \/ FinalizeTemplate(c, FALSE)
    \/ GetTestDatabase(c, FALSE)
    \/ ReturnTestDatabase(c, FALSE)
    \/ SetupTemplate_Initialize(c, FALSE)
    \/ SetupTemplate_Populate(c)
    \/ SetupTemplate_Finalize(c, FALSE)
    \/ SetupTemplateWithDBClient_Initialize(c, FALSE)
    \/ SetupTemplateWithDBClient_Open(c)
    \/ SetupTemplateWithDBClient_Ping(c)
    \/ SetupTemplateWithDBClient_Populate(c)
    \/ SetupTemplateWithDBClient_Finalize(c, FALSE)

Spec == Init /\ [][Next]_vars

NextSeq ==
  \/ Start(1, MaxSeqCalls)
  \/ Cancel(1)
  \/ ResetAllTracking(1, TRUE)
  \/ InitializeTemplate(1, TRUE)
  \/ DiscardTemplate(1, TRUE)
  \/ FinalizeTemplate(1, TRUE)
  \/ GetTestDatabase(1, TRUE)
  \/ ReturnTestDatabase(1, TRUE)
  \/ SetupTemplate_Initialize(1, TRUE)
  \/ SetupTemplate_Populate(1)
  \/ SetupTemplate_Finalize(1, TRUE)
  \/ SetupTemplateWithDBClient_Initialize(1, TRUE)
  \/ SetupTemplateWithDBClient_Open(1)
  \/ SetupTemplateWithDBClient_Ping(1)
  \/ SetupTemplateWithDBClient_Populate(1)
  \/ SetupTemplateWithDBClient_Finalize(1, TRUE)

SpecSeq == Init /\ [][NextSeq]_vars

\* One caller, one operation after the other, each exchange answered by the
\* manager itself or failing in the transport.
NextOne ==
  \/ Start(1, MaxSeqCalls)
  \/ ResetAllTracking(1, FALSE)
  \/ InitializeTemplate(1, FALSE)
  \/ DiscardTemplate(1, FALSE)
  \/ FinalizeTemplate(1, FALSE)
  \/ GetTestDatabase(1, FALSE)
  \/ ReturnTestDatabase(1, FALSE)
  \/ SetupTemplate_Initialize(1, FALSE)
  \/ SetupTemplate_Populate(1)
  \/ SetupTemplate_Finalize(1, FALSE)
  \/ SetupTemplateWithDBClient_Initialize(1, FALSE)
  \/ SetupTemplateWithDBClient_Open(1)
  \/ SetupTemplateWithDBClient_Ping(1)
  \/ SetupTemplateWithDBClient_Populate(1)
  \/ SetupTemplateWithDBClient_Finalize(1, FALSE)

SpecOne == Init /\ [][NextOne]_vars

\* Several callers setting templates up while others tear them down.
TearOps == {"SetupTemplate", "InitializeTemplate", "DiscardTemplate", "ResetAllTracking"}

NextTear ==
  \E c \in Callers :
    \/ StartOf(c, MaxTearCalls, TearOps)
    \/ ResetAllTracking(c, FALSE)
    \/ InitializeTemplate(c, FALSE)
    \/ DiscardTemplate(c, FALSE)
    \/ SetupTemplate_Initialize(c, FALSE)
    \/ SetupTemplate_Populate(c)
    \/ SetupTemplate_Finalize(c, FALSE)

SpecTear == Init /\ [][NextTear]_vars

\* ================================================================= claims
Done(c) == call[c].pc = "done"
Started(c) == call[c].pc # "idle"

\* The exchange steps a finished call has logged, by operation name.
StepsOf(c, name) == {i \in 1..Len(call[c].log) : call[c].log[i].step = name}
HasStep(c, name, res) ==
  \E i \in 1..Len(call[c].log) : call[c].log[i].step = name /\ call[c].log[i].res = res

\* Every call made so far is one call of op on h per caller, and each is over.
OnlyCallsOf(op, h) ==
  /\ \E c \in Callers : Started(c)
  /\ \A c \in Callers : Started(c) => Done(c) /\ call[c].op = op /\ call[c].hash = h
  /\ ncalls = Cardinality({c \in Callers : Started(c)})

\* The status the manager gave to the Initialize exchange of a finished call.
InitStatus(c) == call[c].log[1].res

\* The manager enforced the lock on these calls: at most one Initialize got
\* the success status, all others the locked status.
LockEnforced ==
  /\ \A c \in Callers : Started(c) => InitStatus(c) \in {StatusOK, StatusLocked}
  /\ Cardinality({c \in Callers : Started(c) /\ InitStatus(c) = StatusOK}) <= 1

\* C1 (as stated): N concurrent SetupTemplate(h, populate) calls against a
\* manager that enforces the lock run populate exactly once and all return
\* success.
C1_Original ==
  \A h \in Hashes :
    OnlyCallsOf("SetupTemplate", h) /\ LockEnforced =>
      /\ populated[h] = 1
      /\ \A c \in Callers : Started(c) => call[c].err = Nil

\* C1 (amended): under the same conditions populate runs exactly once, every
\* call that got the locked status returns success, and the call that got the
\* success status returns success exactly when populate succeeded and its
\* FinalizeTemplate was answered with no-content; otherwise it returns the
\* failure of populate or of FinalizeTemplate.
C1_SetupOnce ==
  \A h \in Hashes :
    OnlyCallsOf("SetupTemplate", h) /\ LockEnforced =>
      /\ populated[h] = 1
      /\ \A c \in Callers :
           /\ Started(c) /\ InitStatus(c) = StatusLocked => call[c].err = Nil
           /\ Started(c) /\ InitStatus(c) = StatusOK =>
                /\ call[c].err = Nil <=>
                     HasStep(c, "populate", 1) /\ HasStep(c, "FinalizeTemplate", StatusNoContent)
                /\ HasStep(c, "populate", 0) => call[c].err = ErrPopulate
                /\ HasStep(c, "populate", 1) =>
                     \E i \in StepsOf(c, "FinalizeTemplate") :
                       call[c].err = FinalizeTemplateResult(
                         [ok |-> call[c].log[i].res # 0, status |-> call[c].log[i].res,
                          body |-> MessageBody]).err

C1_Witness ==
  \E h \in Hashes :
    /\ OnlyCallsOf("SetupTemplate", h) /\ LockEnforced
    /\ \A c \in Callers : Started(c) /\ call[c].err = Nil
    /\ populated[h] = 1

\* C2 (as stated): among concurrent InitializeTemplate(h) calls on a hash never
\* initialized, exactly one returns success with a descriptor and every other
\* one returns TemplateAlreadyInitialized.
C2_Original ==
  \A h \in Hashes :
    OnlyCallsOf("InitializeTemplate", h) =>
      \E w \in Callers :
        /\ Started(w) /\ call[w].err = Nil
        /\ \A c \in Callers \ {w} :
             Started(c) => call[c].err = ErrTemplateAlreadyInitialized

\* C2 (amended): for a hash never torn down, at most one InitializeTemplate(h)
\* ever returns success; among concurrent calls on a hash never initialized,
\* a call answered with the locked status returns TemplateAlreadyInitialized,
\* a success carries the descriptor of h, and when every exchange completes
\* with the success or the locked status exactly one call returns success.
C2_InitializeOnce ==
  \A h \in Hashes :
    /\ ~torn[h] => initOK[h] <= 1
    /\ OnlyCallsOf("InitializeTemplate", h) =>
         /\ \A c \in Callers :
              /\ Started(c) /\ InitStatus(c) = StatusLocked =>
                   call[c].err = ErrTemplateAlreadyInitialized
              /\ Started(c) /\ call[c].err = Nil =>
                   call[c].val = [hash |-> h, id |-> 0, db |-> "template"]
         /\ (\A c \in Callers : Started(c) => InitStatus(c) \in {StatusOK, StatusLocked}) =>
              Cardinality({c \in Callers : Started(c) /\ call[c].err = Nil}) = 1

C2_Witness ==
  \E h \in Hashes :
    /\ OnlyCallsOf("InitializeTemplate", h)
    /\ \A c \in Callers : Started(c)
    /\ Cardinality({c \in Callers : call[c].err = Nil}) = 1
    /\ Cardinality({c \in Callers : call[c].err = ErrTemplateAlreadyInitialized}) = NumCallers - 1

\* A SetupTemplate call that returned success without running populate.
Loser(c) ==
  /\ Done(c) /\ call[c].op = "SetupTemplate" /\ call[c].err = Nil
  /\ StepsOf(c, "populate") = {}

\* C3 (as stated): whenever a loser of the race has returned success, the
\* manager's state for h is Ready.
C3_Original == \A c \in Callers : Loser(c) => tmpl[call[c].hash] = "ready"

\* C3 (amended): a SetupTemplate call returns success without running populate
\* exactly on the locked status, which the manager gives once an Initialize of
\* h has been granted: when a loser has returned, some caller's Initialize of
\* h was granted before, and h may still be Initializing.
C3_LoserAfterGrant ==
  \A c \in Callers :
    Loser(c) =>
      /\ call[c].log = <<Step("InitializeTemplate", StatusLocked, MessageBody)>>
      /\ granted[call[c].hash]

C3_Witness ==
  \E c \in Callers : Loser(c) /\ tmpl[call[c].hash] = "initializing"

\* C4: when populate fails inside SetupTemplate, the call returns that
\* failure after the Initialize exchange and the populate step alone (no
\* FinalizeTemplate, no DiscardTemplate exchange); the failing step changes
\* nothing at the manager, and with no other call made h is Initializing.
C4_PopulateFailure ==
  /\ [](\A c \in Callers :
          Done(c) /\ call[c].op = "SetupTemplate" /\ HasStep(c, "populate", 0) =>
            /\ call[c].err = ErrPopulate
            /\ Len(call[c].log) = 2
            /\ call[c].log[1].step = "InitializeTemplate" /\ call[c].log[1].res = StatusOK
            /\ StepsOf(c, "FinalizeTemplate") = {} /\ StepsOf(c, "DiscardTemplate") = {}
            /\ ncalls = 1 => tmpl[call[c].hash] = "initializing")
  /\ [][\A c \in Callers :
          At(c, "SetupTemplate", "populate") /\ call'[c].pc = "done" =>
            /\ call'[c].err = ErrPopulate
            /\ tmpl' = tmpl /\ clones' = clones
            /\ tmpl[call[c].hash] = "initializing" =>
                 tmpl'[call[c].hash] = "initializing"]_vars

C4_Witness ==
  \E c \in Callers :
    /\ Done(c) /\ call[c].op = "SetupTemplate" /\ HasStep(c, "populate", 0)
    /\ call[c].err = ErrPopulate /\ tmpl[call[c].hash] = "initializing"

\* C5: in SetupTemplateWithDBClient a handle that was opened is open while the
\* call runs and has been closed exactly once when the call has returned, on
\* every exit path; a call that opened none closes none.
C5_HandleClosedOnce ==
  \A c \in Callers :
    call[c].op = "SetupTemplateWithDBClient" =>
      /\ call[c].closes <= 1
      /\ Done(c) /\ HasStep(c, "open", 1) =>
           call[c].db = "closed" /\ call[c].closes = 1 /\ Cardinality(StepsOf(c, "close")) = 1
      /\ Done(c) /\ ~HasStep(c, "open", 1) => call[c].db = "none" /\ call[c].closes = 0
      /\ ~Done(c) => call[c].closes = 0 /\ (call[c].db = "open" <=> HasStep(c, "open", 1))

C5_Witness ==
  \E c \in Callers :
    /\ Done(c) /\ call[c].op = "SetupTemplateWithDBClient"
    /\ HasStep(c, "ping", 0) /\ call[c].err = ErrPing
    /\ call[c].db = "closed" /\ call[c].closes = 1

\* ---------------------------------------- the status tables of the document
Decodes(st, dest) ==
  \/ st.res \in {StatusAccepted, StatusNoContent}
  \/ dest = "nil"
  \/ (dest = "struct" /\ st.body.fmt = "object")
  \/ (dest = "string" /\ st.body.fmt = "string")

InitializeTable(status) ==
  IF status = 200 THEN Nil
  ELSE IF status = 423 THEN ErrTemplateAlreadyInitialized
  ELSE IF status = 503 THEN ErrManagerNotReady
  ELSE ErrUnexpectedStatus(status)

FinalizeDiscardTable(status) ==
  IF status = 204 THEN Nil
  ELSE IF status = 404 THEN ErrTemplateNotFound
  ELSE IF status = 503 THEN ErrManagerNotReady
  ELSE ErrUnexpectedStatus(status)

GetTable(status) ==
  IF status = 200 THEN Nil
  ELSE IF status = 404 THEN ErrTemplateNotFound
  ELSE IF status = 410 THEN ErrDatabaseDiscarded
  ELSE IF status = 503 THEN ErrManagerNotReady
  ELSE ErrUnexpectedStatus(status)

\* The failure kinds of one exchange step, by the document's taxonomy.
ExchangeKind(st, dest, table) ==
  IF st.res = 0 THEN ErrTransport
  ELSE IF ~Decodes(st, dest) THEN ErrCodec
  ELSE table

SuccessStatus(op) ==
  IF op \in {"InitializeTemplate", "GetTestDatabase"} THEN 200 ELSE 204

\* C6: SetupTemplate and SetupTemplateWithDBClient return success on
\* TemplateAlreadyInitialized from their Initialize step and on nothing else
\* that failed: every other failure of Initialize, the failure of open, of the
\* probe, of populate and of Finalize is what the call returns; every other
\* operation returns success only on its own success status.
C6_OnlyLockedAbsorbed ==
  \A c \in Callers :
    Done(c) =>
      IF call[c].op \in {"SetupTemplate", "SetupTemplateWithDBClient"}
        THEN LET log == call[c].log
                 st == CHOOSE i \in 1..Len(log) : log[i].step = "InitializeTemplate"
                 k == ExchangeKind(log[st], "struct", InitializeTable(log[st].res))
             IN IF k = ErrTemplateAlreadyInitialized
                  THEN call[c].err = Nil /\ StepsOf(c, "populate") = {}
                ELSE IF k # Nil THEN call[c].err = k
                ELSE IF HasStep(c, "open", 0) THEN call[c].err = ErrOpen
                ELSE IF HasStep(c, "ping", 0) THEN call[c].err = ErrPing
                ELSE IF HasStep(c, "populate", 0) THEN call[c].err = ErrPopulate
                ELSE \E i \in StepsOf(c, "FinalizeTemplate") :
                       call[c].err =
                         ExchangeKind(log[i], "nil", FinalizeDiscardTable(log[i].res))
        ELSE call[c].err = Nil =>
               \E i \in StepsOf(c, call[c].op) :
                 call[c].log[i].res = SuccessStatus(call[c].op)

C6_Witness ==
  \E c \in Callers :
    /\ Done(c) /\ call[c].op = "SetupTemplateWithDBClient"
    /\ HasStep(c, "InitializeTemplate", StatusOK) /\ HasStep(c, "populate", 1)
    /\ HasStep(c, "FinalizeTemplate", StatusServiceUnavailable)
    /\ call[c].err = ErrManagerNotReady

\* A finished call of op, with the step of its one exchange.
Finished(c, op) == Done(c) /\ call[c].op = op
Exchange(c) == call[c].log[CHOOSE i \in 1..Len(call[c].log) : call[c].log[i].step = call[c].op]

\* C7 (as stated): the outcome of every completed InitializeTemplate exchange
\* is fixed by the response status alone.
C7_Original ==
  \A c \in Callers :
    Finished(c, "InitializeTemplate") /\ Exchange(c).res # 0 =>
      call[c].err = InitializeTable(Exchange(c).res)

\* C7 (amended): the outcome of a completed InitializeTemplate exchange is
\* fixed by the response status when the body decodes into the descriptor or
\* the status is 202 or 204 (no decoding): 200 returns the decoded descriptor
\* with no error, 423 TemplateAlreadyInitialized, 503 ManagerNotReady, any
\* other status an unexpected-status failure carrying it.  A body that does
\* not decode yields a decoding failure whatever the status, 423 included.
C7_InitializeByStatus ==
  \A c \in Callers :
    Finished(c, "InitializeTemplate") /\ Exchange(c).res # 0 =>
      IF Decodes(Exchange(c), "struct")
        THEN /\ call[c].err = InitializeTable(Exchange(c).res)
             /\ call[c].err = Nil => call[c].val = Exchange(c).body.val
        ELSE call[c].err = ErrCodec

C7_Witness ==
  \E c \in Callers :
    /\ Finished(c, "InitializeTemplate")
    /\ Exchange(c).res = StatusLocked /\ Exchange(c).body = MessageBody
    /\ call[c].err = ErrTemplateAlreadyInitialized
    /\ tmpl[call[c].hash] = "initializing"

\* C8: FinalizeTemplate and DiscardTemplate map the status of a completed
\* exchange alike, whatever the body: 204 success, 404 TemplateNotFound, 503
\* ManagerNotReady, any other status an unexpected-status failure carrying
\* it; the manager's answer for a hash it does not know gives
\* TemplateNotFound in both.
C8_FinalizeDiscardByStatus ==
  /\ \A c \in Callers :
       (Finished(c, "FinalizeTemplate") \/ Finished(c, "DiscardTemplate"))
         /\ Exchange(c).res # 0 =>
           call[c].err = FinalizeDiscardTable(Exchange(c).res)
  /\ \A h \in Hashes :
       tmpl[h] \in {"absent", "discarded"} =>
         /\ \A a \in ManagerFinalize(h) : FinalizeTemplateResult(a.r).err = ErrTemplateNotFound
         /\ \A a \in ManagerDiscard(h) : DiscardTemplateResult(a.r).err = ErrTemplateNotFound

C8_Witness ==
  \E c \in Callers :
    /\ Finished(c, "DiscardTemplate") /\ Exchange(c).res = StatusNotFound
    /\ call[c].err = ErrTemplateNotFound
    /\ tmpl[call[c].hash] = "absent" /\ ~granted[call[c].hash]

\* C9 (as stated): the outcome of every completed GetTestDatabase exchange is
\* fixed by the response status alone.
C9_Original ==
  \A c \in Callers :
    Finished(c, "GetTestDatabase") /\ Exchange(c).res # 0 =>
      call[c].err = GetTable(Exchange(c).res)

\* C9 (amended): when the body of a completed GetTestDatabase exchange decodes
\* (or the status is 202 or 204), 200 returns the decoded TestDatabase, 404
\* TemplateNotFound, 410 DatabaseDiscarded, 503 ManagerNotReady, any other
\* status an unexpected-status failure; a body that does not decode yields a
\* decoding failure instead.  The manager's answer gives DatabaseDiscarded for
\* a discarded template and TemplateNotFound for an absent one, and the two
\* kinds differ.
C9_GetByStatus ==
  /\ \A c \in Callers :
       Finished(c, "GetTestDatabase") /\ Exchange(c).res # 0 =>
         IF Decodes(Exchange(c), "struct")
           THEN /\ call[c].err = GetTable(Exchange(c).res)
                /\ call[c].err = Nil => call[c].val = Exchange(c).body.val
           ELSE call[c].err = ErrCodec
  /\ \A h \in Hashes :
       /\ tmpl[h] = "discarded" =>
            \A a \in ManagerGet(h) : GetTestDatabaseResult(a.r).err = ErrDatabaseDiscarded
       /\ tmpl[h] = "absent" =>
            \A a \in ManagerGet(h) : GetTestDatabaseResult(a.r).err = ErrTemplateNotFound
  /\ ErrDatabaseDiscarded # ErrTemplateNotFound

C9_Witness ==
  \E c \in Callers :
    /\ Finished(c, "GetTestDatabase") /\ Exchange(c).res = StatusGone
    /\ call[c].err = ErrDatabaseDiscarded
    /\ tmpl[call[c].hash] = "discarded"

\* The steps of a call that follow the firing of its cancellation signal.
AfterCancel(c) ==
  {i \in 1..Len(call[c].log) :
     \E j \in 1..(i - 1) : call[c].log[j].step = "cancel"}

ExchangeSteps ==
  {"ResetAllTracking", "InitializeTemplate", "DiscardTemplate", "FinalizeTemplate",
   "GetTestDatabase", "ReturnTestDatabase"}

\* C10: an exchange issued after the caller's cancellation signal fired gets
\* no response and ends the call with a TransportFailure and no decoded
\* result; in SetupTemplate a cancellation after a successful Initialize
\* makes the FinalizeTemplate that follows fail so, and SetupTemplate returns
\* that failure.
C10_Cancellation ==
  \A c \in Callers :
    \A i \in AfterCancel(c) :
      call[c].log[i].step \in ExchangeSteps =>
        /\ call[c].log[i].res = 0
        /\ Done(c)
        /\ call[c].err = ErrTransport
        /\ call[c].val = ZeroValue

C10_Witness ==
  \E c \in Callers :
    /\ Finished(c, "SetupTemplate")
    /\ HasStep(c, "InitializeTemplate", StatusOK) /\ HasStep(c, "populate", 1)
    /\ \E i \in AfterCancel(c) : call[c].log[i].step = "FinalizeTemplate"
    /\ call[c].err = ErrTransport

\* The exchanges a call has made, in order: positions in its log.
ExchangesOf(c) == {i \in 1..Len(call[c].log) : call[c].log[i].step \in ExchangeSteps}

SetupOps == {"SetupTemplate", "SetupTemplateWithDBClient"}

\* C11: no operation retries.  A call of InitializeTemplate, FinalizeTemplate,
\* DiscardTemplate, GetTestDatabase, ReturnTestDatabase or ResetAllTracking
\* makes at most one exchange, its own, whatever the outcome; a call of
\* SetupTemplate or SetupTemplateWithDBClient makes at most two, one
\* Initialize and then at most one Finalize, and none after an exchange that
\* ended in ManagerNotReady or in a transport failure.
C11_NoRetries ==
  \A c \in Callers :
    /\ call[c].op \in (Ops \ SetupOps) =>
         /\ Cardinality(ExchangesOf(c)) <= 1
         /\ \A i \in ExchangesOf(c) : call[c].log[i].step = call[c].op
         /\ Done(c) => Cardinality(ExchangesOf(c)) = 1
    /\ call[c].op \in SetupOps =>
         /\ Cardinality(ExchangesOf(c)) <= 2
         /\ Cardinality(StepsOf(c, "InitializeTemplate")) <= 1
         /\ Cardinality(StepsOf(c, "FinalizeTemplate")) <= 1
         /\ ExchangesOf(c) = StepsOf(c, "InitializeTemplate") \cup StepsOf(c, "FinalizeTemplate")
         /\ \A i \in StepsOf(c, "FinalizeTemplate") :
              \E j \in StepsOf(c, "InitializeTemplate") : j < i
    /\ \A i \in ExchangesOf(c) :
         call[c].log[i].res \in {0, StatusServiceUnavailable} =>
           /\ Done(c)
           /\ \A j \in ExchangesOf(c) : j <= i

C11_Witness ==
  \E c \in Callers :
    /\ Finished(c, "SetupTemplate")
    /\ HasStep(c, "InitializeTemplate", StatusOK)
    /\ HasStep(c, "FinalizeTemplate", StatusServiceUnavailable)
    /\ call[c].err = ErrManagerNotReady
    /\ Cardinality(ExchangesOf(c)) = 2

\* C12 (as stated): ResetAllTracking returns success exactly on 204, and a
\* generic failure for every other status of a completed exchange.
C12_Original ==
  \A c \in Callers :
    Finished(c, "ResetAllTracking") /\ Exchange(c).res # 0 =>
      /\ call[c].err = Nil <=> Exchange(c).res = StatusNoContent
      /\ Exchange(c).res # StatusNoContent => call[c].err.kind = "ResetFailed"

\* C12 (amended): ResetAllTracking returns success exactly when the completed
\* exchange has status 204.  For any other status it returns the generic
\* failure carrying the body's text only when the body is a JSON string; on
\* 202 the body is not read and the failure carries no text; a body that is
\* no JSON string (a JSON object, an empty or malformed body) yields a
\* decoding failure instead.  The manager's answer to a reset is a success
\* and leaves every hash Absent and no clone.
C12_ResetByStatus ==
  /\ \A c \in Callers :
       Finished(c, "ResetAllTracking") /\ Exchange(c).res # 0 =>
         /\ call[c].err = Nil <=> Exchange(c).res = StatusNoContent
         /\ Exchange(c).res = StatusAccepted => call[c].err = ErrResetFailed("")
         /\ Exchange(c).res \notin {StatusAccepted, StatusNoContent} =>
              IF Exchange(c).body.fmt = "string"
                THEN call[c].err = ErrResetFailed(Exchange(c).body.text)
                ELSE call[c].err = ErrCodec
  /\ \A a \in ManagerReset :
       /\ ResetAllTrackingResult(a.r).err = Nil
       /\ a.tmpl = [h \in Hashes |-> "absent"]
       /\ a.clones = {}

C12_Witness ==
  \E c \in Callers :
    /\ Finished(c, "ResetAllTracking")
    /\ Exchange(c).res = 500 /\ Exchange(c).body = StringBody
    /\ call[c].err = ErrResetFailed("reason")
    /\ \E h \in Hashes : tmpl[h] = "initializing"

ReturnTable(status) ==
  IF status = 204 THEN Nil
  ELSE IF status = 404 THEN ErrTemplateNotFound
  ELSE IF status = 503 THEN ErrManagerNotReady
  ELSE ErrUnexpectedStatus(status)

\* C14: no operation ever returns the TestNotFound kind.  ReturnTestDatabase
\* maps the status of a completed exchange, whatever the body: 204 success,
\* 404 TemplateNotFound, 503 ManagerNotReady, any other status an
\* unexpected-status failure; the manager's not-found answer, for a hash it
\* does not know as for an id that is no checked-out clone of a known hash,
\* gives TemplateNotFound.
C14_NoTestNotFound ==
  /\ \A c \in Callers : call[c].err.kind # ErrTestNotFound.kind
  /\ \A c \in Callers :
       Finished(c, "ReturnTestDatabase") /\ Exchange(c).res # 0 =>
         call[c].err = ReturnTable(Exchange(c).res)
  /\ \A h \in Hashes, i \in Ids :
       <<h, i>> \notin clones =>
         \A a \in ManagerReturn(h, i) :
           a.r.status = StatusNotFound
             /\ ReturnTestDatabaseResult(a.r).err = ErrTemplateNotFound

C14_Witness ==
  \E c \in Callers :
    /\ Finished(c, "ReturnTestDatabase") /\ Exchange(c).res = StatusNotFound
    /\ call[c].err = ErrTemplateNotFound
    /\ tmpl[call[c].hash] = "ready" /\ <<call[c].hash, call[c].id>> \notin clones

\* The steps of a call in order, the firing of its cancellation signal left out.
StepNames(c) ==
  LET RECURSIVE names(_)
      names(i) ==
        IF i > Len(call[c].log) THEN <<>>
        ELSE IF call[c].log[i].step = "cancel" THEN names(i + 1)
        ELSE <<call[c].log[i].step>> \o names(i + 1)
  IN names(1)

IsPrefix(s, t) == Len(s) <= Len(t) /\ SubSeq(t, 1, Len(s)) = s

\* The Initialize step of a call ended in success: status 200 with a body
\* that decoded into the descriptor.
InitializeSucceeded(c) ==
  \E i \in StepsOf(c, "InitializeTemplate") :
    call[c].log[i].res = StatusOK /\ Decodes(call[c].log[i], "struct")

\* C15: within every SetupTemplate call the steps come in the order
\* Initialize, populate, Finalize, each at most once; populate runs only
\* after this call's Initialize returned success, Finalize is issued only
\* after populate returned success, and a call whose Initialize did not
\* succeed has run neither populate nor Finalize when it returns.
C15_StepOrder ==
  \A c \in Callers :
    call[c].op = "SetupTemplate" =>
      /\ IsPrefix(StepNames(c), <<"InitializeTemplate", "populate", "FinalizeTemplate">>)
      /\ StepsOf(c, "populate") # {} => InitializeSucceeded(c)
      /\ StepsOf(c, "FinalizeTemplate") # {} => HasStep(c, "populate", 1)
      /\ call[c].pc = "populate" <=> InitializeSucceeded(c) /\ StepsOf(c, "populate") = {}
      /\ call[c].pc = "finalize" <=>
           HasStep(c, "populate", 1) /\ StepsOf(c, "FinalizeTemplate") = {}
      /\ Done(c) /\ ~InitializeSucceeded(c) =>
           StepNames(c) = <<"InitializeTemplate">>

C15_Witness ==
  \E c \in Callers :
    /\ Finished(c, "SetupTemplate")
    /\ StepNames(c) = <<"InitializeTemplate", "populate", "FinalizeTemplate">>
    /\ HasStep(c, "InitializeTemplate", StatusOK) /\ HasStep(c, "populate", 1)
    /\ HasStep(c, "FinalizeTemplate", StatusNoContent)
    /\ call[c].err = Nil /\ tmpl[call[c].hash] = "ready"

\* The response a logged exchange step ended with.
ResponseOf(st) == IF st.res = 0 THEN NoResponse ELSE Response(st.res, st.body)

Without(names, S) == SelectSeq(names, LAMBDA n : n \notin S)

FirstStep(c, name) == call[c].log[CHOOSE i \in StepsOf(c, name) : TRUE]

\* What SetupTemplate makes of the responses and of the populate result that
\* the finished call c got: the steps it takes and the error it returns.
SetupTemplateOutline(c) ==
  LET res == InitializeTemplateResult(ResponseOf(FirstStep(c, "InitializeTemplate")))
      d == SetupTemplateDecision(res.err)
  IN IF ~d.populate
       THEN [steps |-> <<"InitializeTemplate">>, err |-> d.ret]
     ELSE IF ~HasStep(c, "populate", 1)
       THEN [steps |-> <<"InitializeTemplate", "populate">>, err |-> ErrPopulate]
     ELSE [steps |-> <<"InitializeTemplate", "populate", "FinalizeTemplate">>,
           err |-> IF StepsOf(c, "FinalizeTemplate") = {} THEN Nil
                   ELSE FinalizeTemplateResult(
                          ResponseOf(FirstStep(c, "FinalizeTemplate"))).err]

GateFailed(c) == HasStep(c, "open", 0) \/ HasStep(c, "ping", 0)

\* C16: for the same responses and the same populate result a finished
\* SetupTemplateWithDBClient call has made the exchanges and returned the
\* error that SetupTemplate makes and returns, with the gate in between: the
\* handle is opened and probed after the success of Initialize and before
\* populate, and when the open or the probe fails the call returns that
\* failure with neither populate nor Finalize.
C16_SameAsSetupTemplate ==
  \A c \in Callers :
    /\ Finished(c, "SetupTemplate") =>
         /\ StepNames(c) = SetupTemplateOutline(c).steps
         /\ call[c].err = SetupTemplateOutline(c).err
    /\ call[c].op = "SetupTemplateWithDBClient" =>
         IsPrefix(Without(StepNames(c), {"close"}),
                  <<"InitializeTemplate", "open", "ping", "populate", "FinalizeTemplate">>)
    /\ Finished(c, "SetupTemplateWithDBClient") /\ ~GateFailed(c) =>
         /\ Without(StepNames(c), {"open", "ping", "close"}) = SetupTemplateOutline(c).steps
         /\ call[c].err = SetupTemplateOutline(c).err
         /\ StepsOf(c, "populate") # {} => HasStep(c, "open", 1) /\ HasStep(c, "ping", 1)
    /\ Finished(c, "SetupTemplateWithDBClient") /\ GateFailed(c) =>
         /\ InitializeSucceeded(c)
         /\ StepsOf(c, "populate") = {} /\ StepsOf(c, "FinalizeTemplate") = {}
         /\ call[c].err = (IF HasStep(c, "open", 0) THEN ErrOpen ELSE ErrPing)
         /\ ExchangesOf(c) = StepsOf(c, "InitializeTemplate")

C16_Witness ==
  \E c \in Callers :
    /\ Finished(c, "SetupTemplateWithDBClient")
    /\ StepNames(c) = <<"InitializeTemplate", "open">>
    /\ HasStep(c, "open", 0) /\ call[c].err = ErrOpen
    /\ tmpl[call[c].hash] = "initializing"

\* The destination an operation hands to do, and the outcome it gives to the
\* status that do returns to it.
Destination(op) ==
  IF op \in {"InitializeTemplate", "GetTestDatabase"} THEN "struct"
  ELSE IF op = "ResetAllTracking" THEN "string"
  ELSE "nil"

Classified(op, st) ==
  IF op = "InitializeTemplate" THEN InitializeTable(st.res)
  ELSE IF op = "GetTestDatabase" THEN GetTable(st.res)
  ELSE IF op = "ReturnTestDatabase" THEN ReturnTable(st.res)
  ELSE IF op = "ResetAllTracking"
    THEN IF st.res = 204 THEN Nil
         ELSE ErrResetFailed(IF st.res = 202 THEN "" ELSE st.body.text)
  ELSE FinalizeDiscardTable(st.res)

\* Decoding is attempted on the response of the step.
Attempted(st, dest) == st.res \notin {202, 204} /\ dest # "nil"

\* C17: for every completed exchange, do decodes the body into the
\* destination exactly when the status is neither 202 nor 204 and there is a
\* destination; when the decoding is attempted and fails the operation
\* returns the decoding failure, whatever the status; when it is skipped or
\* succeeds the operation returns what it makes of the status, with the
\* decoded value when there is one and the zero value otherwise.
C17_DecodeRule ==
  \A c \in Callers :
    Done(c) /\ call[c].op \in ExchangeSteps /\ Exchange(c).res # 0 =>
      LET x == Exchange(c)
          dest == Destination(call[c].op)
          d == do(ResponseOf(x), dest)
          fits == Decode(x.body, dest).ok
      IN /\ d.decoded <=> Attempted(x, dest) /\ fits
         /\ d.err = ErrCodec <=> Attempted(x, dest) /\ ~fits
         /\ Attempted(x, dest) /\ ~fits =>
              d.resp = 0 /\ call[c].err = ErrCodec /\ call[c].val = ZeroValue
         /\ ~Attempted(x, dest) \/ fits =>
              /\ d.err = Nil /\ d.resp = x.res
              /\ call[c].err = Classified(call[c].op, x)
              /\ call[c].val = (IF d.decoded THEN Decode(x.body, dest).val ELSE ZeroValue)

C17_Witness ==
  \E c \in Callers :
    /\ Finished(c, "GetTestDatabase")
    /\ Exchange(c).res = StatusOK /\ Exchange(c).body = MalformedBody
    /\ call[c].err = ErrCodec
    /\ \E i \in Ids : <<call[c].hash, i>> \in clones

\* A finished SetupTemplate call whose template was torn down, by a
\* DiscardTemplate or a ResetAllTracking, after the call's Initialize had
\* succeeded and before its Finalize.
TornBeforeFinalize(c) ==
  /\ Finished(c, "SetupTemplate") /\ undone[c] # "no"
  /\ StepsOf(c, "FinalizeTemplate") # {}

\* C18 (as stated): such a call has run populate exactly once and, its
\* Finalize exchange answered by the manager at work, returns
\* TemplateNotFound.
C18_Original ==
  \A c \in Callers :
    TornBeforeFinalize(c)
      /\ FirstStep(c, "FinalizeTemplate").res \notin {0, StatusServiceUnavailable} =>
        /\ Cardinality(StepsOf(c, "populate")) = 1
        /\ call[c].err = ErrTemplateNotFound

\* C18 (amended): such a call has run populate exactly once and has made one
\* Initialize exchange, it never initializes h again.  While h stays torn
\* down the manager answers its Finalize with not-found and the call returns
\* TemplateNotFound, never success; when another caller has initialized h
\* again in between, the manager answers the Finalize with no-content and the
\* call returns success.  A Finalize exchange answered 503 or failing in the
\* transport returns ManagerNotReady or the transport failure.
C18_TornBeforeFinalize ==
  \A c \in Callers :
    TornBeforeFinalize(c) =>
      LET x == FirstStep(c, "FinalizeTemplate") IN
      /\ Cardinality(StepsOf(c, "populate")) = 1 /\ HasStep(c, "populate", 1)
      /\ Cardinality(StepsOf(c, "InitializeTemplate")) = 1
      /\ call[c].err = (IF x.res = 0 THEN ErrTransport ELSE FinalizeDiscardTable(x.res))
      /\ undone[c] = "torn" =>
           /\ x.res \in {StatusNotFound, StatusServiceUnavailable, 0}
           /\ x.res = StatusNotFound => call[c].err = ErrTemplateNotFound
           /\ call[c].err # Nil
      /\ undone[c] = "again" =>
           /\ x.res \in {StatusNoContent, StatusServiceUnavailable, 0}
           /\ x.res = StatusNoContent => call[c].err = Nil

C18_Witness ==
  \E c \in Callers :
    /\ TornBeforeFinalize(c) /\ undone[c] = "torn"
    /\ HasStep(c, "FinalizeTemplate", StatusNotFound)
    /\ call[c].err = ErrTemplateNotFound
    /\ tmpl[call[c].hash] \in {"absent", "discarded"}

\* The other way out: the call returned success although its template was
\* torn down, another caller having initialized h again.
C18_AgainSuccess ==
  \E c \in Callers :
    TornBeforeFinalize(c) /\ undone[c] = "again" /\ call[c].err = Nil

OperationResult(op, r) ==
  IF op = "ResetAllTracking" THEN ResetAllTrackingResult(r)
  ELSE IF op = "InitializeTemplate" THEN InitializeTemplateResult(r)
  ELSE IF op = "DiscardTemplate" THEN DiscardTemplateResult(r)
  ELSE IF op = "FinalizeTemplate" THEN FinalizeTemplateResult(r)
  ELSE IF op = "GetTestDatabase" THEN GetTestDatabaseResult(r)
  ELSE ReturnTestDatabaseResult(r)

\* C20: the client keeps nothing between calls.  Its base location is the one
\* it was constructed with after any operation, every request is addressed
\* below it, and what a finished call returned is fixed by the responses and
\* the steps of that call alone: for an operation of one exchange by the
\* response to it, for SetupTemplate and SetupTemplateWithDBClient by the
\* responses to their Initialize and Finalize and by the results of open,
\* probe and populate, whatever the calls made before through the same client.
C20_NoClientState ==
  /\ baseURL = ResolvedBase
  /\ \A h \in Hashes :
       /\ InitializeTemplateRequest(baseURL, Context(FALSE), h).path = <<"api", "v1", "templates">>
       /\ GetTestDatabaseRequest(baseURL, Context(FALSE), h).path =
            <<"api", "v1", "templates", h, "tests">>
  /\ \A c \in Callers :
       Done(c) =>
         IF call[c].op \in SetupOps
           THEN call[c].val = ZeroValue
                /\ call[c].err =
                     (IF HasStep(c, "open", 0) THEN ErrOpen
                      ELSE IF HasStep(c, "ping", 0) THEN ErrPing
                      ELSE SetupTemplateOutline(c).err)
           ELSE /\ call[c].err = OperationResult(call[c].op, ResponseOf(Exchange(c))).err
                /\ call[c].val = OperationResult(call[c].op, ResponseOf(Exchange(c))).val

C20_Witness ==
  \E c \in Callers :
    /\ Finished(c, "InitializeTemplate")
    /\ ncalls >= 2 /\ initOK[call[c].hash] = 1 /\ granted[call[c].hash]
    /\ tmpl[call[c].hash] = "initializing"
    /\ Exchange(c).res = StatusLocked
    /\ call[c].err = ErrTemplateAlreadyInitialized /\ call[c].val = ZeroValue
    /\ baseURL = ResolvedBase

====
